---- MODULE Spec2Model ----
(***************************************************************************)
(* RHMap: the Robin Hood hash map of src/src/hashmap.rs.                   *)
(*                                                                         *)
(* The map's fields (inner, num_items, max_psl) are the state; every       *)
(* public method is one action, built from operators that follow the       *)
(* method's code statement by statement.  Indices are 0-based as in the    *)
(* source: slot i of the vector is inner[i + 1] in the sequence.           *)
(***************************************************************************)
EXTENDS Integers, Sequences, FiniteSets, TLC

\* ------------------------------------------------------------------ bounds
MaxInitCapacity == 2    \* with_capacity(n) is explored for n in 0..MaxInitCapacity
HashBound == 2          \* hash values are drawn from 0..HashBound
MaxLen == 4             \* insert is not explored once the vector is longer than this
MinCount == 0           \* remove is not explored once num_items is below -MinCount
MaxCalls == 3           \* behaviours of Spec make at most this many calls
MoreCalls == 2          \* behaviours of SpecDeep make this many more

\* --------------------------------------------------------------- constants
INITIAL_SIZE == 4

Keys == {1, 4, 7}                 \* the keys of the general specification
ScenarioKeys == {1, 4, 7, 3, 9}   \* the keys of tests::it_removes_entries
Values == {1, 2}

\* ------------------------------------------------------------ data model
\* map_entry.rs: MapEntry is VacantEntry or Occupied(Entry{key,value,hash,psl})
VacantEntry == [tag |-> "VacantEntry"]

Entry(key, value, hash, psl) ==
  [tag |-> "Occupied", key |-> key, value |-> value, hash |-> hash, psl |-> psl]

IsOccupied(e) == e.tag = "Occupied"

max(a, b) == IF a > b THEN a ELSE b

\* usize comparison a > b.  num_items is kept as the signed representative of
\* its value modulo 2^64, so a negative a stands for 2^64 + a.
UGt(a, b) == IF a < 0 THEN (b >= 0 \/ a > b) ELSE (b >= 0 /\ a > b)

VARIABLES
  inner,            \* Vec<MapEntry<K, V>>
  num_items,        \* usize
  max_psl,          \* usize
  hashOf,           \* what hash_key returns for each key (the hasher is deterministic)
  overflow_checks,  \* TRUE: arithmetic overflow panics (debug); FALSE: it wraps (release)
  status,           \* "ok", or "panic" once a method has aborted
  last,             \* the last call: its name, arguments and result
  prev,             \* the map as it was when the last call started
  shadow,           \* reference map: key -> Found(value most recently inserted) or None
  only_inserts,     \* TRUE while every call since construction was an insert
  calls,            \* number of calls made so far
  limit,            \* number of calls the behaviour is explored for
  pc                \* position in the scripted scenario (0 outside it)

vars == <<inner, num_items, max_psl, hashOf, overflow_checks, status, last, prev,
          shadow, only_inserts, calls, limit, pc>>

\* The map as one value.
Map(vec, n, mp) == [inner |-> vec, num_items |-> n, max_psl |-> mp]
Self == Map(inner, num_items, max_psl)

\* RHMap::new / with_hasher: empty vector, no items.
new == Map(<<>>, 0, 0)

\* RHMap::with_capacity / with_capacity_and_hasher: n vacant slots.
with_capacity(n) == Map([i \in 1..n |-> VacantEntry], 0, 0)

len(m) == m.num_items
capacity(m) == Len(m.inner)

\* hash_key: the hash of a key under the map's hasher.
hash_key(key) == hashOf[key]

\* ------------------------------------------------------------- insertion
\* insert_entry (hashmap.rs 143-182): the probing loop, started at index i
\* with the carried entry.  Returns the map after the loop and the trailing
\* num_items += 1 (skipped by the early return of the key-equal branch).
RECURSIVE insert_loop(_, _, _)
insert_loop(m, entry, i) ==
  IF i >= Len(m.inner)
  THEN \* inner.get_mut(i) is None: push and break
       [m EXCEPT !.inner = Append(@, entry), !.num_items = @ + 1]
  ELSE LET cur == m.inner[i + 1] IN
       IF IsOccupied(cur)
       THEN IF cur.key = entry.key
            THEN \* mem::replace(occupied_entry, entry); return
                 [m EXCEPT !.inner[i + 1] = entry]
            ELSE IF entry.psl > cur.psl
            THEN \* mem::swap(&mut entry, occupied_entry); continue
                 insert_loop([m EXCEPT !.inner[i + 1] = entry], cur, i)
            ELSE \* i += 1; entry.psl += 1; max_psl = max(max_psl, entry.psl)
                 insert_loop([m EXCEPT !.max_psl = max(@, entry.psl + 1)],
                             [entry EXCEPT !.psl = @ + 1], i + 1)
       ELSE \* vacancy: mem::replace(cur, Occupied(entry)); break
            [m EXCEPT !.inner[i + 1] = entry, !.num_items = @ + 1]

insert_entry(m, entry) == insert_loop(m, entry, entry.hash % Len(m.inner))

\* resize (hashmap.rs 272-295): a new map of the target size receives every
\* occupied entry of the old vector, in index order, through insert_entry.
RECURSIVE reinsert(_, _, _)
reinsert(new_map, old_inner, k) ==
  IF k > Len(old_inner) THEN new_map
  ELSE IF IsOccupied(old_inner[k])
       THEN reinsert(insert_entry(new_map, old_inner[k]), old_inner, k + 1)
       ELSE reinsert(new_map, old_inner, k + 1)

target_size(n) == IF n = 0 THEN INITIAL_SIZE ELSE 2 * n

resize(m) == reinsert(with_capacity(target_size(Len(m.inner))), m.inner, 1)

\* Mutant: the load-factor test with >= for >.
needs_resize_at_threshold(m) ==
  Len(m.inner) = 0
    \/ UGt(m.num_items, (3 * Len(m.inner)) \div 4)
    \/ m.num_items = (3 * Len(m.inner)) \div 4

\* The load-factor test of insert (hashmap.rs 76).
needs_resize(m) ==
  Len(m.inner) = 0 \/ UGt(m.num_items, (3 * Len(m.inner)) \div 4)

\* insert (hashmap.rs 74-83)
insert(m, key, value) ==
  LET m1 == IF needs_resize(m) THEN resize(m) ELSE m
  IN insert_entry(m1, Entry(key, value, hash_key(key), 0))

\* ---------------------------------------------------------------- lookup
None == [tag |-> "None"]
Some(e) == [tag |-> "Some", entry |-> e]
Panic == [tag |-> "Panic"]

\* get_entry (hashmap.rs 205-235): the while loop from index d.
RECURSIVE get_loop(_, _, _)
get_loop(m, key, d) ==
  IF d < Len(m.inner)
  THEN LET cur == m.inner[d + 1] IN
       IF IsOccupied(cur)
       THEN IF cur.key = key THEN Some(cur)
            ELSE IF cur.psl < d \/ d > m.max_psl THEN None
            ELSE get_loop(m, key, d + 1)
       ELSE None
  ELSE None

\* hash % self.inner.len() panics on an empty vector (remainder by zero).
get_entry(m, key) ==
  IF Len(m.inner) = 0 THEN Panic
  ELSE get_loop(m, key, hash_key(key) % Len(m.inner))

\* get (hashmap.rs 194-200): Some(value), None, or the panic of get_entry.
get(m, key) ==
  LET res == get_entry(m, key) IN
  IF res.tag = "Some" THEN [tag |-> "Some", value |-> res.entry.value] ELSE res

\* contains_key (hashmap.rs 252-259): TRUE, FALSE, or the panic of get_entry.
contains_key(m, key) ==
  LET res == get_entry(m, key) IN
  IF res.tag = "Panic" THEN Panic ELSE [tag |-> "Bool", value |-> res.tag = "Some"]

\* --------------------------------------------------------------- removal
\* self.num_items -= 1 (hashmap.rs 103, 136): with overflow checks the
\* subtraction panics at 0 after the vector has been written; without them
\* it wraps.
decrement(m, inner2) ==
  IF m.num_items = 0 /\ overflow_checks
  THEN [m |-> [m EXCEPT !.inner = inner2], res |-> "Panic"]
  ELSE [m |-> [m EXCEPT !.inner = inner2, !.num_items = @ - 1], res |-> "Ok"]

\* The run scan (hashmap.rs 107-122): the first j at or after the start
\* whose slot is vacant or holds psl == 0; -1 when inner.get(j) is None and
\* the unwrap panics.
RECURSIVE run_end(_, _)
run_end(vec, j) ==
  IF j >= Len(vec) THEN -1
  ELSE LET cur == vec[j + 1] IN
       IF IsOccupied(cur) /\ cur.psl # 0 THEN run_end(vec, j + 1) ELSE j

\* ptr::copy(entry_ptr.offset(1), entry_ptr, j - i - 1) and
\* ptr::write(entry_ptr.add(j - i - 1), VacantEntry) (hashmap.rs 126-134)
shift_left(vec, i, j) ==
  [x \in 1..Len(vec) |->
     IF x - 1 >= i /\ x - 1 < j - 1 THEN vec[x + 1]
     ELSE IF x - 1 = j - 1 THEN VacantEntry
     ELSE vec[x]]

\* Mutant: remove without the last-slot case of hashmap.rs 101-105.
remove_without_last_slot_case(m, key) ==
  LET res == get_entry(m, key) IN
  IF res.tag = "Panic" THEN [m |-> m, res |-> "Panic"]
  ELSE IF res.tag = "None" THEN [m |-> m, res |-> "Err"]
  ELSE LET i == (res.entry.hash % Len(m.inner)) + res.entry.psl
           j == run_end(m.inner, i + 1)
       IN IF j < 0 THEN [m |-> m, res |-> "Panic"]
          ELSE decrement(m, shift_left(m.inner, i, j))

\* remove (hashmap.rs 86-141): the map afterwards and Ok, Err or Panic.
remove(m, key) ==
  LET res == get_entry(m, key) IN
  IF res.tag = "Panic" THEN [m |-> m, res |-> "Panic"]
  ELSE IF res.tag = "None" THEN [m |-> m, res |-> "Err"]
  ELSE LET entry == res.entry
           length == Len(m.inner)
           slot == entry.hash % length
           i == slot + entry.psl
           j0 == i + 1
       IN IF j0 >= length
          THEN IF i >= length
               THEN [m |-> m, res |-> "Panic"]   \* self.inner[i] out of bounds
               ELSE decrement(m, [m.inner EXCEPT ![i + 1] = VacantEntry])
          ELSE LET j == run_end(m.inner, j0) IN
               IF j < 0 THEN [m |-> m, res |-> "Panic"]   \* get(j).unwrap() on None
               ELSE decrement(m, shift_left(m.inner, i, j))

\* clear (hashmap.rs 238-249): as many vacant slots as before, no items.
clear(m) ==
  [m EXCEPT !.inner = [x \in 1..Len(m.inner) |-> VacantEntry], !.num_items = 0]

\* ------------------------------------------------------------ the machine
Call(op, key, value, res) == [op |-> op, key |-> key, value |-> value, res |-> res]
Unit == [tag |-> "Unit"]
Res(r) == [tag |-> r]

\* Construction: new() or with_capacity(n), under some deterministic hasher
\* and some build profile.
InitWith(m, keys) ==
  /\ inner = m.inner
  /\ num_items = m.num_items
  /\ max_psl = m.max_psl
  /\ hashOf \in [keys -> 0..HashBound]
  /\ overflow_checks \in BOOLEAN
  /\ status = "ok"
  /\ last = Call("new", 0, 0, Unit)
  /\ prev = m
  /\ shadow = [k \in keys |-> [tag |-> "None"]]
  /\ only_inserts = TRUE
  /\ calls = 0

Init ==
  /\ \E n \in 0..MaxInitCapacity : InitWith(with_capacity(n), Keys)
  /\ limit = MaxCalls
  /\ pc = 0

\* The fields after a call that returned or panicked with the map m.
Becomes(m, panicked) ==
  /\ inner' = m.inner
  /\ num_items' = m.num_items
  /\ max_psl' = m.max_psl
  /\ status' = IF panicked THEN "panic" ELSE "ok"
  /\ prev' = Self
  /\ calls' = calls + 1
  /\ UNCHANGED <<hashOf, overflow_checks, limit>>

DoInsert(key, value) ==
  /\ status = "ok"
  /\ Len(inner) <= MaxLen
  /\ Becomes(insert(Self, key, value), FALSE)
  /\ last' = Call("insert", key, value, Unit)
  /\ shadow' = [shadow EXCEPT ![key] = [tag |-> "Some", value |-> value]]
  /\ UNCHANGED only_inserts

DoGet(key) ==
  /\ status = "ok"
  /\ LET r == get(Self, key) IN
       /\ Becomes(Self, r.tag = "Panic")
       /\ last' = Call("get", key, 0, r)
  /\ only_inserts' = FALSE
  /\ UNCHANGED shadow

DoContainsKey(key) ==
  /\ status = "ok"
  /\ LET r == contains_key(Self, key) IN
       /\ Becomes(Self, r.tag = "Panic")
       /\ last' = Call("contains_key", key, 0, r)
  /\ only_inserts' = FALSE
  /\ UNCHANGED shadow

DoRemove(key) ==
  /\ status = "ok"
  /\ num_items >= -MinCount
  /\ LET r == remove(Self, key) IN
       /\ Becomes(r.m, r.res = "Panic")
       /\ last' = Call("remove", key, 0, Res(r.res))
       /\ shadow' = IF r.res = "Ok" THEN [shadow EXCEPT ![key] = None] ELSE shadow
  /\ only_inserts' = FALSE

DoClear ==
  /\ status = "ok"
  /\ Becomes(clear(Self), FALSE)
  /\ last' = Call("clear", 0, 0, Unit)
  /\ shadow' = [k \in DOMAIN shadow |-> None]
  /\ only_inserts' = FALSE

\* One call of a public method on some key of the map's key set.
More == calls < limit /\ pc = 0

Insert == More /\ \E k \in DOMAIN hashOf, v \in Values : DoInsert(k, v) /\ UNCHANGED pc
Get == More /\ \E k \in DOMAIN hashOf : DoGet(k) /\ UNCHANGED pc
ContainsKey == More /\ \E k \in DOMAIN hashOf : DoContainsKey(k) /\ UNCHANGED pc
Remove == More /\ \E k \in DOMAIN hashOf : DoRemove(k) /\ UNCHANGED pc
Clear == More /\ DoClear /\ UNCHANGED pc

Next == Insert \/ Get \/ ContainsKey \/ Remove \/ Clear

Spec == Init /\ [][Next]_vars

\* The same machine explored for MoreCalls further calls.
InitDeep ==
  /\ \E n \in 0..MaxInitCapacity : InitWith(with_capacity(n), Keys)
  /\ limit = MaxCalls + MoreCalls
  /\ pc = 0

SpecDeep == InitDeep /\ [][Next]_vars

\* ---------------------------------------------------------- the scenario
\* tests::it_removes_entries (hashmap.rs 371-391) on with_capacity(4):
\* insert 1, 4, 7, 3, 9 (each with value 2), then remove 4, 1, 7, 3.
Scenario ==
  <<[op |-> "insert", key |-> 1], [op |-> "insert", key |-> 4],
    [op |-> "insert", key |-> 7], [op |-> "insert", key |-> 3],
    [op |-> "insert", key |-> 9], [op |-> "remove", key |-> 4],
    [op |-> "remove", key |-> 1], [op |-> "remove", key |-> 7],
    [op |-> "remove", key |-> 3]>>

ScenarioDone == pc = Len(Scenario) + 1

InitScenario ==
  /\ InitWith(with_capacity(4), ScenarioKeys)
  /\ limit = Len(Scenario)
  /\ pc = 1

ScenarioInsert ==
  /\ pc \in 1..Len(Scenario)
  /\ Scenario[pc].op = "insert"
  /\ DoInsert(Scenario[pc].key, 2)
  /\ pc' = pc + 1

ScenarioRemove ==
  /\ pc \in 1..Len(Scenario)
  /\ Scenario[pc].op = "remove"
  /\ DoRemove(Scenario[pc].key)
  /\ pc' = pc + 1

NextScenario == ScenarioInsert \/ ScenarioRemove

SpecScenario == InitScenario /\ [][NextScenario]_vars

\* ============================================================ properties
Found(v) == [tag |-> "Some", value |-> v]
Bool(b) == [tag |-> "Bool", value |-> b]

\* The keys that have an entry in m, and the number of occupied slots.
HasEntry(m, key) ==
  \E x \in 1..Len(m.inner) : IsOccupied(m.inner[x]) /\ m.inner[x].key = key
Occupied(m) == {x \in 1..Len(m.inner) : IsOccupied(m.inner[x])}
IsEmpty(m) == m.num_items = 0 /\ Occupied(m) = {}

\* The keys inserted since construction or the last clear and not removed
\* since by a remove that returned Ok.
Live == {k \in DOMAIN shadow : shadow[k] # None}

\* C1 (round trip): after a sequence of insert calls only, get(k) returns
\* the value of the most recent insert(k, v), for every key inserted.
C1_RoundTrip ==
  (only_inserts /\ status = "ok") =>
    \A k \in Live : get(Self, k) = shadow[k]

\* C2 (deletion correctness): after remove(k) returned Ok, contains_key(k)
\* is false and every other key that get reported before the call is
\* reported with the same value.
C2_Deletion ==
  (last.op = "remove" /\ last.res.tag = "Ok") =>
    /\ contains_key(Self, last.key) = Bool(FALSE)
    /\ \A k \in DOMAIN hashOf \ {last.key} :
         get(prev, k).tag = "Some" => get(Self, k) = get(prev, k)

\* C3 (count accuracy): len() is the number of distinct keys inserted since
\* construction or the last clear and not removed since by a successful
\* remove.
C3_Count == status = "ok" => len(Self) = Cardinality(Live)

\* C4: remove(k) fails with KeyNotFound exactly when k has no entry, and a
\* failed remove leaves the vector, num_items and max_psl as they were.
C4_RemoveFails ==
  last.op = "remove" =>
    /\ last.res.tag = "Err" <=> ~HasEntry(prev, last.key)
    /\ last.res.tag = "Err" => Self = prev

\* C5 (resize preserves content): after an insert that resized, every other
\* key that get reported before the call is reported with the same value,
\* and num_items grew by one exactly when the inserted key was new.
C5_ResizeKeeps ==
  (last.op = "insert" /\ needs_resize(prev)) =>
    /\ \A k \in DOMAIN hashOf \ {last.key} :
         get(prev, k).tag = "Some" => get(Self, k) = get(prev, k)
    /\ len(Self) = len(prev) + (IF HasEntry(prev, last.key) THEN 0 ELSE 1)

\* C6: get(k) and contains_key(k) never abort, and report None / false for
\* a key without an entry, whatever the capacity.
C6_LookupTotal ==
  /\ last.op = "get" =>
       /\ last.res.tag # "Panic"
       /\ ~HasEntry(prev, last.key) => last.res = None
  /\ last.op = "contains_key" =>
       /\ last.res.tag # "Panic"
       /\ ~HasEntry(prev, last.key) => last.res = Bool(FALSE)

ResizeTarget(m) ==
  IF capacity(m) = 0 THEN INITIAL_SIZE
  ELSE IF UGt(len(m), (3 * capacity(m)) \div 4) THEN 2 * capacity(m)
  ELSE capacity(m)

C8_CapacityOnlyByResize ==
  /\ last.op = "insert" => capacity(Self) = ResizeTarget(prev)
  /\ last.op \in {"get", "contains_key", "remove", "clear"} =>
       capacity(Self) = capacity(prev)

\* C8 as amended: insert brings capacity() to the resize target or above it,
\* the excess being slots appended by walks that ran past the end of the
\* vector: at most one without a resize, at most one per re-inserted entry
\* and one for the new entry with a resize.  No other call changes
\* capacity().
C8_CapacityResizeOrAppend ==
  /\ last.op = "insert" =>
       /\ capacity(Self) >= ResizeTarget(prev)
       /\ capacity(Self) <= ResizeTarget(prev) + 1
            + (IF ResizeTarget(prev) = capacity(prev) THEN 0
               ELSE Cardinality(Occupied(prev)))
  /\ last.op \in {"get", "contains_key", "remove", "clear"} =>
       capacity(Self) = capacity(prev)

\* An insert that did not resize and appended a slot.
C8_Witness ==
  /\ last.op = "insert"
  /\ capacity(prev) > 0
  /\ ResizeTarget(prev) = capacity(prev)
  /\ capacity(Self) = capacity(prev) + 1

\* C9 (the scenario): with_capacity(4), insert 1, 4, 7, 3, 9 with value 2,
\* remove 4, 1, 7, 3: no call aborts and at the end len() is 1, get(9) is 2
\* and 4, 1, 7, 3 are not found, whatever the keys' hashes.
C9_Scenario ==
  /\ status = "ok"
  /\ ScenarioDone =>
       /\ len(Self) = 1
       /\ get(Self, 9) = Found(2)
       /\ \A k \in {4, 1, 7, 3} : get(Self, k) = None

\* C10 (insert then remove): on an empty table of capacity n >= 1,
\* insert(k, v) followed by remove(k) returns Ok and leaves len() = 0,
\* capacity() = n, contains_key(k) false and every slot vacant.
C10_InsertThenRemove ==
  (status = "ok" /\ IsEmpty(Self) /\ capacity(Self) >= 1) =>
    \A k \in DOMAIN hashOf, v \in Values :
      LET r == remove(insert(Self, k, v), k) IN
        /\ r.res = "Ok"
        /\ len(r.m) = 0
        /\ capacity(r.m) = capacity(Self)
        /\ contains_key(r.m, k) = Bool(FALSE)
        /\ Occupied(r.m) = {}

\* The single-slot case has run: remove(k) of the only entry, sitting in
\* the last slot of a capacity-1 table, right after its insert.
C10_Witness ==
  /\ last.op = "remove"
  /\ last.res.tag = "Ok"
  /\ capacity(prev) = 1
  /\ len(prev) = 1
  /\ HasEntry(prev, last.key)
  /\ IsEmpty(Self)
  /\ capacity(Self) = 1

\* The home slot of the entry in slot x of m: its hash modulo the capacity.
Home(m, x) == m.inner[x].hash % Len(m.inner)

\* C11 (PSL invariant): after every public operation every occupied slot at
\* index i with stored hash h has psl = i - (h mod capacity).
C11_PslIsDistance ==
  status = "ok" =>
    \A x \in Occupied(Self) : inner[x].psl = (x - 1) - Home(Self, x)

\* C12 (max_psl bound): after every public operation max_psl is at least
\* the psl of every occupied slot.
C12_MaxPslBounds ==
  status = "ok" => \A x \in Occupied(Self) : max_psl >= inner[x].psl

\* C13 (key uniqueness): no two occupied slots hold equal keys.
C13_KeysUnique ==
  status = "ok" =>
    \A x, y \in Occupied(Self) : inner[x].key = inner[y].key => x = y

\* C14 (count invariant): after every public operation len() is the number
\* of occupied slots, and 0 <= len() <= capacity().
C14_CountIsOccupied ==
  status = "ok" =>
    /\ len(Self) = Cardinality(Occupied(Self))
    /\ 0 <= len(Self)
    /\ len(Self) <= capacity(Self)

\* The index at which the lookup of key stops with a match: the first slot
\* at or after the key's home slot that holds the key.
FoundIndex(m, key) ==
  LET h == hash_key(key) % Len(m.inner) IN
  CHOOSE d \in h..(Len(m.inner) - 1) :
    /\ IsOccupied(m.inner[d + 1]) /\ m.inner[d + 1].key = key
    /\ \A e \in h..(d - 1) : ~(IsOccupied(m.inner[e + 1]) /\ m.inner[e + 1].key = key)

\* The end of the run after index i: the first index past i that is the end
\* of the vector, a vacant slot or an entry with psl = 0.
RunEnd(m, i) ==
  CHOOSE j \in (i + 1)..Len(m.inner) :
    /\ j = Len(m.inner) \/ ~IsOccupied(m.inner[j + 1]) \/ m.inner[j + 1].psl = 0
    /\ \A y \in (i + 1)..(j - 1) : IsOccupied(m.inner[y + 1]) /\ m.inner[y + 1].psl # 0

\* C15 (remove never aborts): every remove(k) returns Ok or Err; the index
\* (hash mod capacity) + psl computed for the located entry is below the
\* capacity, and num_items is never taken below 0.
C15_RemoveCompletes ==
  last.op = "remove" =>
    /\ last.res.tag \in {"Ok", "Err"}
    /\ (capacity(prev) > 0 /\ get_entry(prev, last.key).tag = "Some") =>
         LET e == get_entry(prev, last.key).entry
         IN (e.hash % capacity(prev)) + e.psl < capacity(prev)
    /\ len(Self) >= 0

\* C16 (backward-shift step): a remove(k) that returned Ok, of the entry at
\* index i with run end j, moves every entry of [i+1, j) one index down with
\* key, value and hash unchanged and psl one less, leaves slot j-1 vacant
\* and every slot outside [i, j) unchanged, takes one off num_items and
\* leaves max_psl and the capacity unchanged.
C16_BackwardShift ==
  (last.op = "remove" /\ last.res.tag = "Ok") =>
    LET i == FoundIndex(prev, last.key)
        j == RunEnd(prev, i)
    IN /\ capacity(Self) = capacity(prev)
       /\ \A x \in (i + 1)..(j - 1) :
            inner[x] = [prev.inner[x + 1] EXCEPT !.psl = @ - 1]
       /\ inner[j] = VacantEntry
       /\ \A x \in 0..(capacity(prev) - 1) :
            (x < i \/ x >= j) => inner[x + 1] = prev.inner[x + 1]
       /\ len(Self) = len(prev) - 1
       /\ max_psl = prev.max_psl

\* The largest psl among the occupied slots of m (0 when there is none).
LargestPsl(m) ==
  IF Occupied(m) = {} THEN 0
  ELSE CHOOSE p \in {m.inner[x].psl : x \in Occupied(m)} :
         \A x \in Occupied(m) : m.inner[x].psl <= p

\* C17 (resize rehash): right after the resize of a resizing insert every
\* occupied entry has psl = index - (hash mod new capacity), and max_psl is
\* the largest psl among the occupied slots.
C17_ResizeRehashes ==
  (last.op = "insert" /\ needs_resize(prev)) =>
    LET r == resize(prev) IN
      /\ \A x \in Occupied(r) : r.inner[x].psl = (x - 1) - Home(r, x)
      /\ r.max_psl = LargestPsl(r)

\* C18 (overwrite in place): insert(k, v) of a key that has an entry, without
\* a resize, replaces only that entry's value: its slot, key, hash and psl,
\* every other slot, num_items and the capacity are unchanged.
C18_OverwriteInPlace ==
  (last.op = "insert" /\ HasEntry(prev, last.key) /\ ~needs_resize(prev)) =>
    /\ \E x \in Occupied(prev) :
         /\ prev.inner[x].key = last.key
         /\ inner = [prev.inner EXCEPT ![x].value = last.value]
    /\ len(Self) = len(prev)
    /\ capacity(Self) = capacity(prev)

\* C19 (Robin Hood ordering): after every public operation the home slots of
\* adjacent occupied slots are in non-decreasing order, and no vacant slot
\* lies between an entry's home slot and the slot it occupies.
C19_RobinHoodOrder ==
  status = "ok" =>
    /\ \A x \in Occupied(Self) :
         (x + 1) \in Occupied(Self) => Home(Self, x) <= Home(Self, x + 1)
    /\ \A x \in Occupied(Self) :
         /\ Home(Self, x) <= x - 1
         /\ \A y \in (Home(Self, x) + 1)..x : y \in Occupied(Self)

\* C20 as stated: after clear() the map equals a freshly constructed
\* with_capacity(capacity()) map, max_psl included.
C20_ClearIsFresh ==
  last.op = "clear" => Self = with_capacity(capacity(prev))

====
